---- MODULE Spec2Model ----
(***************************************************************************)
(* Field-extraction and normalization engine of the grants.gov FOA         *)
(* ingestor (src/main.py).  Python strings are TLA+ strings, handled one   *)
(* character at a time; Python's None, str, list, bool and int values are  *)
(* tagged records, so that "absent", "empty string", "empty list", False   *)
(* and 0 stay distinct.                                                    *)
(***************************************************************************)
EXTENDS Integers, Sequences, FiniteSets, TLC

VARIABLES
    pc,              \* position of the component under analysis
    data,            \* drop_empty_fields: the keyed record passed in (asdict)
    cleaned,         \* drop_empty_fields: the dict returned
    again,           \* drop_empty_fields applied to its own result
    opp,             \* the Opportunity record (fields read / written by the step)
    page_text,       \* find_label: flattened, normalized page text
    label,           \* find_label: target label
    found,           \* find_label: returned value
    anchors,         \* extract_links: href attributes of the page's <a> elements
    external_links,  \* extract_links / assembler: external link list
    documents,       \* extract_links / assembler: document list
    parts,           \* to_iso_date: how the raw date string was put together
    raw,             \* to_iso_date: the raw string passed in
    iso,             \* to_iso_date: returned value
    toks,            \* first_date_token: fragments the span was put together from
    span,            \* first_date_token: the span passed in
    token            \* first_date_token: returned value

vars == <<pc, data, cleaned, again, opp, page_text, label, found, anchors,
          external_links, documents, parts, raw, iso, toks, span, token>>

-----------------------------------------------------------------------------
(* Python values *)

None == [t |-> "none"]
Str(x) == [t |-> "str", str |-> x]
List(x) == [t |-> "list", list |-> x]
Bool(x) == [t |-> "bool", bool |-> x]
IntV(x) == [t |-> "int", int |-> x]

\* Python truthiness of a value (`if v:`, `not v`, `v or ...`)
Truthy(v) ==
    CASE v.t = "none" -> FALSE
      [] v.t = "str"  -> v.str # ""
      [] v.t = "list" -> v.list # <<>>
      [] v.t = "bool" -> v.bool
      [] v.t = "int"  -> v.int # 0

\* `x or ""` for an Optional[str]
OrEmpty(v) == IF Truthy(v) THEN v.str ELSE ""

-----------------------------------------------------------------------------
(* Characters and strings *)

Ch(str, i) == SubSeq(str, i, i)

UpperChars == "ABCDEFGHIJKLMNOPQRSTUVWXYZ"
LowerChars == "abcdefghijklmnopqrstuvwxyz"
Digits == "0123456789"

\* the characters URLs are written with, in code-point order (Python compares
\* str by code point)
Ascii == " #%&+,-./0123456789:=?@ABCDEFGHIJKLMNOPQRSTUVWXYZ_abcdefghijklmnopqrstuvwxyz~"

CharsOf(str) == {Ch(str, i) : i \in 1..Len(str)}

IndexIn(str, c) == CHOOSE i \in 1..Len(str) : Ch(str, i) = c

UpperSet == CharsOf(UpperChars)
DigitSet == CharsOf(Digits)
AlphaSet == CharsOf(UpperChars) \cup CharsOf(LowerChars)
SpaceSet == {" ", "\t", "\n", "\r"}

IsSpace(c) == c \in SpaceSet
IsDigit(c) == c \in DigitSet
IsAlpha(c) == c \in AlphaSet
\* \w of the re module, on the ASCII letters, digits and underscore
IsWord(c) == IsAlpha(c) \/ IsDigit(c) \/ c = "_"

DigitVal(c) == IndexIn(Digits, c) - 1

\* str.lower(), one character
LowerMap == [c \in UpperSet |-> Ch(LowerChars, IndexIn(UpperChars, c))]
LowerCh(c) == IF c \in UpperSet THEN LowerMap[c] ELSE c

Min(S) == CHOOSE x \in S : \A y \in S : x <= y
Max(S) == CHOOSE x \in S : \A y \in S : x >= y

\* "".join(f[lo..hi]), by halves
RECURSIVE JoinChars(_, _, _)
JoinChars(f, lo, hi) ==
    IF lo > hi THEN ""
    ELSE IF lo = hi THEN f[lo]
    ELSE LET mid == (lo + hi) \div 2
         IN  JoinChars(f, lo, mid) \o JoinChars(f, mid + 1, hi)

\* str.lower()
lower(str) == JoinChars([i \in 1..Len(str) |-> LowerCh(Ch(str, i))], 1, Len(str))

\* str.strip(): from the first to the last character that is no whitespace
strip(str) ==
    LET ns == {i \in 1..Len(str) : ~IsSpace(Ch(str, i))}
    IN  IF ns = {} THEN "" ELSE SubSeq(str, Min(ns), Max(ns))

\* re.sub(r"\s+", " ", s): every maximal run of whitespace becomes one space
CollapseSpaces(str) ==
    JoinChars([i \in 1..Len(str) |->
                  IF ~IsSpace(Ch(str, i)) THEN Ch(str, i)
                  ELSE IF i > 1 /\ IsSpace(Ch(str, i - 1)) THEN ""
                  ELSE " "],
              1, Len(str))

\* clean_text on a str; clean_text(None) is clean_text("")
clean_text(str) == strip(CollapseSpaces(str))

\* Python `kw in hay`
Contains(hay, kw) ==
    \E i \in 1..(Len(hay) - Len(kw) + 1) : SubSeq(hay, i, i + Len(kw) - 1) = kw

startswith(str, p) == Len(str) >= Len(p) /\ SubSeq(str, 1, Len(p)) = p
endswith(str, p) == Len(str) >= Len(p) /\ SubSeq(str, Len(str) - Len(p) + 1, Len(str)) = p

\* set(seq)
Range(seq) == {seq[i] : i \in 1..Len(seq)}

\* " ".join(seq)
RECURSIVE JoinSpace(_)
JoinSpace(seq) ==
    IF seq = <<>> THEN ""
    ELSE IF Len(seq) = 1 THEN seq[1]
    ELSE seq[1] \o " " \o JoinSpace(Tail(seq))

\* str < str, by code point: decided at the first position where they differ
StrLess(a, b) ==
    LET n == IF Len(a) < Len(b) THEN Len(a) ELSE Len(b)
        diff == {i \in 1..n : Ch(a, i) # Ch(b, i)}
    IN  IF diff = {} THEN Len(a) < Len(b)
        ELSE IndexIn(Ascii, Ch(a, Min(diff))) < IndexIn(Ascii, Ch(b, Min(diff)))

-----------------------------------------------------------------------------
(* Record pruning: drop_empty_fields *)

\* The fields of asdict(opportunity) followed here, in dataclass order, each
\* with the values it is given.
TitleValues == {None, Str(""), Str("AI for Climate Resilience")}
CloseDateValues == {None, Str(""), Str("2025-08-01")}
CostSharingValues == {None, Bool(FALSE), Bool(TRUE)}
AwardFloorValues == {None, IntV(0), IntV(5000)}
InstrumentValues == {None, List(<<>>), List(<<"Grant">>)}
TagsValues == {List(<<>>), List(<<"has_deadline">>)}

Records ==
    { << <<"opportunity_title", a>>, <<"close_date", b>>, <<"is_cost_sharing", c>>,
         <<"award_floor", d>>, <<"funding_instruments", e>>, <<"tags", f>> >> :
        a \in TitleValues, b \in CloseDateValues, c \in CostSharingValues,
        d \in AwardFloorValues, e \in InstrumentValues, f \in TagsValues }

\* plausible slip: `if not v: continue`, which also drops False and 0
RECURSIVE drop_falsy_fields(_)
drop_falsy_fields(items) ==
    IF items = <<>> THEN <<>>
    ELSE IF ~Truthy(Head(items)[2]) THEN drop_falsy_fields(Tail(items))
    ELSE <<Head(items)>> \o drop_falsy_fields(Tail(items))

\* plausible slip: deleting from the dict being iterated, so that the entry
\* after a deleted one is never looked at
RECURSIVE drop_while_iterating(_)
drop_while_iterating(items) ==
    IF items = <<>> THEN <<>>
    ELSE LET v == Head(items)[2]
         IN  IF v = None \/ v = Str("") \/ (v.t = "list" /\ Len(v.list) = 0)
             THEN IF Len(items) = 1 THEN <<>>
                  ELSE <<items[2]>> \o drop_while_iterating(Tail(Tail(items)))
             ELSE <<Head(items)>> \o drop_while_iterating(Tail(items))

\* data.items() in insertion order, as a sequence of <<key, value>>
RECURSIVE drop_empty_fields(_)
drop_empty_fields(items) ==
    IF items = <<>> THEN <<>>
    ELSE LET v == Head(items)[2]
             rest == drop_empty_fields(Tail(items))
         IN  IF v = None THEN rest
             ELSE IF v = Str("") THEN rest
             ELSE IF v.t = "list" /\ Len(v.list) = 0 THEN rest
             ELSE <<Head(items)>> \o rest

PruneIdle == data = <<>> /\ cleaned = <<>> /\ again = <<>>
TagsIdle == opp = None
LabelIdle == page_text = "" /\ label = "" /\ found = None
LinksIdle == anchors = <<>> /\ external_links = <<>> /\ documents = <<>>
DateIdle == parts = None /\ raw = None /\ iso = None
TokenIdle == toks = <<>> /\ span = None /\ token = None

InitPrune ==
    /\ pc = "start"
    /\ data \in Records
    /\ cleaned = <<>>
    /\ again = <<>>
    /\ TagsIdle /\ LabelIdle /\ LinksIdle /\ DateIdle /\ TokenIdle

\* row = drop_empty_fields(asdict(opportunity))
Prune ==
    /\ pc = "start"
    /\ cleaned' = drop_empty_fields(data)
    /\ pc' = "pruned"
    /\ UNCHANGED <<data, again, opp, page_text, label, found, anchors, external_links,
                   documents, parts, raw, iso, toks, span, token>>

\* pruning an already-pruned record
PruneAgain ==
    /\ pc = "pruned"
    /\ again' = drop_empty_fields(cleaned)
    /\ pc' = "repruned"
    /\ UNCHANGED <<data, cleaned, opp, page_text, label, found, anchors, external_links,
                   documents, parts, raw, iso, toks, span, token>>

NextPrune == Prune \/ PruneAgain

SpecPrune == InitPrune /\ [][NextPrune]_vars

ValueOf(items, k) == (CHOOSE kv \in Range(items) : kv[1] = k)[2]
HasKey(items, k) == \E kv \in Range(items) : kv[1] = k
PosOf(items, kv) == CHOOSE i \in 1..Len(items) : items[i] = kv
NonEmptyValue(v) == v # None /\ v # Str("") /\ v # List(<<>>)

\* C1: the pruned record holds exactly the entries whose value is not None,
\* not "" and not []; values are unchanged, relative order is kept, False
\* and 0 are kept; with opportunity_title="", funding_instruments=[] and
\* close_date="2025-08-01" only close_date is emitted among those three.
C1_PruneExact ==
    pc \in {"pruned", "repruned"} =>
        /\ \A kv \in Range(cleaned) : kv \in Range(data) /\ NonEmptyValue(kv[2])
        /\ \A kv \in Range(data) : NonEmptyValue(kv[2]) => kv \in Range(cleaned)
        /\ Len(cleaned) = Cardinality(Range(cleaned))
        /\ \A i, j \in 1..Len(cleaned) :
               i < j => PosOf(data, cleaned[i]) < PosOf(data, cleaned[j])
        /\ \A kv \in Range(data) : kv[2] \in {Bool(FALSE), IntV(0)} => kv \in Range(cleaned)
        /\ ( /\ ValueOf(data, "opportunity_title") = Str("")
             /\ ValueOf(data, "funding_instruments") = List(<<>>)
             /\ ValueOf(data, "close_date") = Str("2025-08-01") )
           => /\ ~HasKey(cleaned, "opportunity_title")
              /\ ~HasKey(cleaned, "funding_instruments")
              /\ <<"close_date", Str("2025-08-01")>> \in Range(cleaned)

C1_Witness ==
    /\ pc = "pruned"
    /\ ValueOf(data, "opportunity_title") = Str("")
    /\ ValueOf(data, "funding_instruments") = List(<<>>)
    /\ ValueOf(data, "close_date") = Str("2025-08-01")
    /\ ValueOf(data, "is_cost_sharing") = Bool(FALSE)
    /\ ValueOf(data, "award_floor") = IntV(0)
    /\ cleaned = << <<"close_date", Str("2025-08-01")>>, <<"is_cost_sharing", Bool(FALSE)>>,
                    <<"award_floor", IntV(0)>> >>

\* C2: pruning is idempotent: pruning the pruned record gives the pruned
\* record back.
C2_PruneIdempotent == pc = "repruned" => again = cleaned

C2_Witness ==
    /\ pc = "repruned"
    /\ Len(cleaned) > 0
    /\ Len(cleaned) < Len(data)
    /\ again = cleaned

-----------------------------------------------------------------------------
(* Tag classifier: TAG_RULES, apply_tags *)

TAG_RULES ==
    << <<"health_biomed", <<"health", "cdc", "nih", "disease", "registry">> >>,
       <<"ai_ml", <<"machine learning", "artificial intelligence", "deep learning", "llm", "nlp">> >>,
       <<"cybersecurity", <<"cyber", "ransomware", "phishing", "zero trust", "infosec">> >>,
       <<"education", <<"education", "teacher", "school", "curriculum">> >>,
       <<"climate_environment", <<"climate", "environment", "sustainability", "emissions">> >>,
       <<"energy", <<"energy", "renewable", "solar", "wind", "grid", "battery">> >> >>

\* the five fields joined with single spaces, before lowering
HayFields(o) ==
    JoinSpace(<< OrEmpty(o.opportunity_title),
                 OrEmpty(o.agency_name),
                 OrEmpty(o.category),
                 JoinSpace(IF Truthy(o.funding_categories) THEN o.funding_categories.list ELSE <<>>),
                 OrEmpty(o.applicant_eligibility_description) >>)

\* any(kw in hay for kw in kws)
AnyKeyword(hay, kws) == \E i \in 1..Len(kws) : Contains(hay, kws[i])

\* for tag, kws in TAG_RULES: if any(...): tags.append(tag)
RECURSIVE RuleTags(_, _)
RuleTags(hay, rules) ==
    IF rules = <<>> THEN <<>>
    ELSE (IF AnyKeyword(hay, Head(rules)[2]) THEN <<Head(rules)[1]>> ELSE <<>>)
         \o RuleTags(hay, Tail(rules))

\* the seen / out loop: first occurrences, in order
RECURSIVE Dedup(_, _)
Dedup(tags, seen) ==
    IF tags = <<>> THEN <<>>
    ELSE IF Head(tags) \in seen THEN Dedup(Tail(tags), seen)
    ELSE <<Head(tags)>> \o Dedup(Tail(tags), seen \cup {Head(tags)})

\* plausible slip: the haystack is not lowered
apply_tags_case_sensitive(o) ==
    LET hay == HayFields(o)
        tags == RuleTags(hay, TAG_RULES)
                \o (IF Truthy(o.close_date) THEN <<"has_deadline">> ELSE <<>>)
                \o (IF o.is_cost_sharing = Bool(TRUE) THEN <<"cost_sharing">> ELSE <<>>)
    IN  [o EXCEPT !.tags = Dedup(tags, {})]

apply_tags(o) ==
    LET hay == lower(HayFields(o))
        tags == RuleTags(hay, TAG_RULES)
                \o (IF Truthy(o.close_date) THEN <<"has_deadline">> ELSE <<>>)
                \o (IF o.is_cost_sharing = Bool(TRUE) THEN <<"cost_sharing">> ELSE <<>>)
    IN  [o EXCEPT !.tags = Dedup(tags, {})]

\* Records handed to apply_tags: the fields it reads, tags still the
\* dataclass default.
TagTitles == {Str(""), Str("AI for Climate Resilience"), Str("Deep"),
              Str("Machine Learning and NLP for School Health")}
TagAgencies == {None, Str("learning lab"), Str("NIH"), Str("Department of Energy")}
TagCategories == {None, Str("Discretionary")}
TagFundingCategories == {None, List(<<"Environment">>), List(<<"Zero", "Trust">>)}
TagEligibilities == {None, Str("Solar cooperatives and teachers")}
TagCloseDates == {None, Str("2025-08-01")}
TagCostSharing == {None, Bool(FALSE), Bool(TRUE)}

TagOpportunities ==
    { [ opportunity_title |-> a, agency_name |-> b, category |-> c,
        funding_categories |-> d, applicant_eligibility_description |-> e,
        close_date |-> f, is_cost_sharing |-> g, tags |-> <<>> ] :
        a \in TagTitles, b \in TagAgencies, c \in TagCategories,
        d \in TagFundingCategories, e \in TagEligibilities,
        f \in TagCloseDates, g \in TagCostSharing }

InitTags ==
    /\ pc = "start"
    /\ opp \in TagOpportunities
    /\ PruneIdle /\ LabelIdle /\ LinksIdle /\ DateIdle /\ TokenIdle

ApplyTags ==
    /\ pc = "start"
    /\ opp' = apply_tags(opp)
    /\ pc' = "tagged"
    /\ UNCHANGED <<data, cleaned, again, page_text, label, found, anchors, external_links,
                   documents, parts, raw, iso, toks, span, token>>

NextTags == ApplyTags

SpecTags == InitTags /\ [][NextTags]_vars

TagOrder ==
    [i \in 1..Len(TAG_RULES) |-> TAG_RULES[i][1]] \o <<"has_deadline", "cost_sharing">>

\* kw is a case-insensitive substring of text
ContainsIgnoreCase(text, kw) == Contains(lower(text), lower(kw))

\* a, b, c occur in seq in that relative order
InOrder3(seq, a, b, c) ==
    \E i, j, k \in 1..Len(seq) : i < j /\ j < k /\ seq[i] = a /\ seq[j] = b /\ seq[k] = c

\* C3: after apply_tags the tag list is the rule-table tags with a keyword
\* that is a case-insensitive substring of the concatenated fields, in table
\* order, then has_deadline iff a close date is present, then cost_sharing
\* iff the flag is explicitly true; no tag twice.
C3_TagsExact ==
    pc = "tagged" =>
        /\ \A r \in 1..Len(TAG_RULES) :
               (TAG_RULES[r][1] \in Range(opp.tags))
               <=> (\E kw \in Range(TAG_RULES[r][2]) : ContainsIgnoreCase(HayFields(opp), kw))
        /\ ("has_deadline" \in Range(opp.tags)) <=> (opp.close_date # None)
        /\ ("cost_sharing" \in Range(opp.tags)) <=> (opp.is_cost_sharing = Bool(TRUE))
        /\ Range(opp.tags) \subseteq Range(TagOrder)
        /\ Len(opp.tags) = Cardinality(Range(opp.tags))
        /\ \A i, j \in 1..Len(opp.tags) :
               i < j => PosOf(TagOrder, opp.tags[i]) < PosOf(TagOrder, opp.tags[j])

C3_Witness ==
    /\ pc = "tagged"
    /\ opp.opportunity_title = Str("Deep")
    /\ opp.agency_name = Str("learning lab")
    /\ opp.is_cost_sharing = Bool(TRUE)
    /\ opp.tags = <<"ai_ml", "climate_environment", "has_deadline", "cost_sharing">>

\* C4: title "AI for Climate Resilience" with a close date gives tags that
\* include ai_ml, climate_environment, has_deadline in that order, no
\* duplicates.
C4_AiClimateExample ==
    ( /\ pc = "tagged"
      /\ opp.opportunity_title = Str("AI for Climate Resilience")
      /\ Truthy(opp.close_date) )
    => /\ InOrder3(opp.tags, "ai_ml", "climate_environment", "has_deadline")
       /\ Len(opp.tags) = Cardinality(Range(opp.tags))

-----------------------------------------------------------------------------
(* Label extractor: LABELS, find_label *)

LABELS ==
    << "Agency",
       "Assistance Listings",
       "Posted date",
       "Closing",
       "Close date",
       "Closing date",
       "Archive date",
       "Funding opportunity number",
       "Cost sharing or matching requirement",
       "Funding instrument type",
       "Opportunity Category",
       "Opportunity Category Explanation",
       "Category of Funding Activity",
       "Category Explanation",
       "Last Updated" >>

\* greedy \s* from position j: the first position at or after j that holds no
\* whitespace
RECURSIVE SkipSpaces(_, _)
SkipSpaces(str, j) ==
    IF j <= Len(str) /\ IsSpace(Ch(str, j)) THEN SkipSpaces(str, j + 1) ELSE j

\* re.escape(l) \s* : under re.IGNORECASE, tried at position i of the lowered
\* text: the position after the colon, or 0 when it does not match there
LabelColonAt(ltext, i, l) ==
    LET n == Len(l)
    IN  IF i + n - 1 <= Len(ltext) /\ SubSeq(ltext, i, i + n - 1) = lower(l)
        THEN LET j == SkipSpaces(ltext, i + n)
             IN  IF j <= Len(ltext) /\ Ch(ltext, j) = ":" THEN j + 1 ELSE 0
        ELSE 0

\* the lookahead (?=\s*(?:stop)\s*:|$) tried at position e
StopAhead(ltext, e, stop) ==
    \/ LET k == SkipSpaces(ltext, e)
       IN  \E x \in 1..Len(stop) : LabelColonAt(ltext, k, stop[x]) # 0
    \/ e = Len(ltext) + 1

\* the lazy group (.*?): the first position at or after vs where the lookahead
\* holds (it holds at the end of the text at the latest)
LazyEnd(ltext, vs, stop) == Min({e \in vs..(Len(ltext) + 1) : StopAhead(ltext, e, stop)})

\* re.search: the leftmost position where the pattern matches; the value is
\* clean_text(m.group(1)), or None when there is no match
SearchLabel(text, l, stop) ==
    LET ltext == lower(text)
        starts == {i \in 1..Len(text) : LabelColonAt(ltext, i, l) # 0}
    IN  IF starts = {} THEN None
        ELSE LET vs == SkipSpaces(ltext, LabelColonAt(ltext, Min(starts), l))
                 e == LazyEnd(ltext, vs, stop)
             IN  Str(clean_text(SubSeq(text, vs, e - 1)))

\* plausible slip: the target label is not taken out of the stop labels
find_label_stop_at_self(text, l) == SearchLabel(text, l, LABELS)

find_label(text, l) ==
    LET other_labels == SelectSeq(LABELS, LAMBDA x : lower(x) # lower(l))
    IN  SearchLabel(text, l, other_labels)

\* Page texts: "Label: value" fragments laid side by side, flattened and
\* whitespace-normalized as __main__ does (clean_text(" ".join(...))).
MaxSegments == 2

Segments ==
    { "Agency: National Science Foundation",
      "Closing date: 08/01/2025",
      "agency : NIH",
      "Subagency: CDC",
      "Opportunity Category Explanation: n/a",
      "Category Explanation:",
      "Closing soon",
      "Agency" }

SegmentLists == UNION {[1..n -> Segments] : n \in 0..MaxSegments}

InitLabel ==
    /\ pc = "start"
    /\ \E segs \in SegmentLists : page_text = clean_text(JoinSpace(segs))
    /\ label \in Range(LABELS)
    /\ found = None
    /\ PruneIdle /\ TagsIdle /\ LinksIdle /\ DateIdle /\ TokenIdle

FindLabel ==
    /\ pc = "start"
    /\ found' = find_label(page_text, label)
    /\ pc' = "found"
    /\ UNCHANGED <<data, cleaned, again, opp, page_text, label, anchors, external_links,
                   documents, parts, raw, iso, toks, span, token>>

NextLabel == FindLabel

SpecLabel == InitLabel /\ [][NextLabel]_vars

\* an occurrence of "<l> :" at position i: the label's text in any case,
\* optional whitespace, a colon
OccursAt(text, l, i) ==
    /\ i + Len(l) - 1 <= Len(text)
    /\ lower(SubSeq(text, i, i + Len(l) - 1)) = lower(l)
    /\ \E j \in (i + Len(l))..Len(text) :
           /\ Ch(text, j) = ":"
           /\ \A k \in (i + Len(l))..(j - 1) : IsSpace(Ch(text, k))

ColonOf(text, l, i) == Min({j \in (i + Len(l))..Len(text) : Ch(text, j) = ":"})

\* an occurrence on whole-label boundaries: not inside a longer word, and not
\* inside the text of a longer vocabulary label
WholeOccursAt(text, l, i) ==
    /\ OccursAt(text, l, i)
    /\ i = 1 \/ ~IsWord(Ch(text, i - 1))
    /\ ~\E l2 \in Range(LABELS), i2 \in 1..(i - 1) :
           /\ Len(l2) > Len(l)
           /\ i2 + Len(l2) = i + Len(l)
           /\ OccursAt(text, l2, i2)

\* the value after the first occurrence of the target, up to the next
\* occurrence of another label or the end of the text, whitespace-normalized;
\* None when the target does not occur (whole: occurrences on whole-label
\* boundaries only)
ValueAfterLabel(text, l, whole) ==
    LET Occ(x, i) == IF whole THEN WholeOccursAt(text, x, i) ELSE OccursAt(text, x, i)
        occ == {i \in 1..Len(text) : Occ(l, i)}
    IN  IF occ = {} THEN None
        ELSE LET c == ColonOf(text, l, Min(occ))
                 others == {x \in Range(LABELS) : lower(x) # lower(l)}
                 stops == {k \in (c + 1)..Len(text) : \E x \in others : Occ(x, k)}
                 e == IF stops = {} THEN Len(text) + 1 ELSE Min(stops)
             IN  Str(clean_text(SubSeq(text, c + 1, e - 1)))

\* C5: find_label returns absent when the text has no "<label> :", and
\* otherwise the whitespace-normalized text between the first "<label> :"
\* and the next "<other-label> :" or the end of the text; on the Agency /
\* Closing date example it returns "National Science Foundation".
C5_FindLabelValue ==
    pc = "found" =>
        /\ found = ValueAfterLabel(page_text, label, FALSE)
        /\ ( /\ page_text = "Agency: National Science Foundation Closing date: 08/01/2025"
             /\ label = "Agency" )
           => found = Str("National Science Foundation")

C5_Witness ==
    /\ pc = "found"
    /\ page_text = "Agency: National Science Foundation Closing date: 08/01/2025"
    /\ label = "Agency"
    /\ found = Str("National Science Foundation")

\* C6: labels are matched on whole-label boundaries: a label is matched
\* neither as the target nor as a stop label inside the text of a longer
\* label or of a longer word.
C6_WholeLabelBoundaries ==
    pc = "found" => found = ValueAfterLabel(page_text, label, TRUE)

-----------------------------------------------------------------------------
(* Link classifier: extract_links, and the link assembly of __main__ *)

\* low.endswith(".pdf") or ".pdf?" in low
IsPdf(href) == LET low == lower(href) IN endswith(low, ".pdf") \/ Contains(low, ".pdf?")

\* the loop over soup.find_all("a", href=True): hrefs is the href attribute of
\* each anchor, in document order; the result is <<external_links, documents>>
RECURSIVE extract_links(_)
extract_links(hrefs) ==
    IF hrefs = <<>> THEN << <<>>, <<>> >>
    ELSE LET href == strip(Head(hrefs))
             rest == extract_links(Tail(hrefs))
         IN  IF href = "" THEN rest
             ELSE IF startswith(href, "http")
                  THEN IF IsPdf(href) THEN <<rest[1], <<href>> \o rest[2]>>
                       ELSE <<<<href>> \o rest[1], rest[2]>>
                  ELSE rest

\* a set of strings in ascending order
RECURSIVE SortSet(_)
SortSet(S) ==
    IF S = {} THEN <<>>
    ELSE LET m == CHOOSE x \in S : \A y \in S : x = y \/ StrLess(x, y)
         IN  <<m>> \o SortSet(S \ {m})

\* plausible slip: the list is used as extracted, neither de-duplicated nor sorted
unsorted(list) == list

\* sorted(set(list))
sorted_set(list) == SortSet(Range(list))

\* plausible slip: the branches the wrong way round, external links first
additional_info_external_first(o, external, docs) ==
    IF external # <<>>
    THEN [o EXCEPT !.additional_info_url = Str(external[1]),
                   !.additional_info_url_description = Str("external_link")]
    ELSE IF docs # <<>>
    THEN [o EXCEPT !.additional_info_url = Str(docs[1]),
                   !.additional_info_url_description = Str("primary_pdf")]
    ELSE o

\* if documents: ... elif external_links: ...
additional_info(o, external, docs) ==
    IF docs # <<>>
    THEN [o EXCEPT !.additional_info_url = Str(docs[1]),
                   !.additional_info_url_description = Str("primary_pdf")]
    ELSE IF external # <<>>
    THEN [o EXCEPT !.additional_info_url = Str(external[1]),
                   !.additional_info_url_description = Str("external_link")]
    ELSE o

MaxAnchors == 3

Hrefs ==
    { "https://a.gov/x.pdf",
      "https://a.gov/page",
      "/relative",
      "",
      " https://a.gov/x.pdf ",
      "https://b.gov/Y.PDF?dl=1",
      "http://a.gov/doc.pdf.html",
      "docs/a.pdf" }

AnchorLists == UNION {[1..n -> Hrefs] : n \in 0..MaxAnchors}

InitLinks ==
    /\ pc = "start"
    /\ anchors \in AnchorLists
    /\ external_links = <<>>
    /\ documents = <<>>
    /\ opp = [additional_info_url |-> None, additional_info_url_description |-> None]
    /\ PruneIdle /\ LabelIdle /\ DateIdle /\ TokenIdle

\* external_links, documents = extract_links(soup)
ExtractLinks ==
    /\ pc = "start"
    /\ external_links' = extract_links(anchors)[1]
    /\ documents' = extract_links(anchors)[2]
    /\ pc' = "extracted"
    /\ UNCHANGED <<data, cleaned, again, opp, page_text, label, found, anchors,
                   parts, raw, iso, toks, span, token>>

\* external_links = sorted(set(external_links)); documents = sorted(set(documents))
SortLinks ==
    /\ pc = "extracted"
    /\ external_links' = sorted_set(external_links)
    /\ documents' = sorted_set(documents)
    /\ pc' = "sorted"
    /\ UNCHANGED <<data, cleaned, again, opp, page_text, label, found, anchors,
                   parts, raw, iso, toks, span, token>>

AssembleLink ==
    /\ pc = "sorted"
    /\ opp' = additional_info(opp, external_links, documents)
    /\ pc' = "linked"
    /\ UNCHANGED <<data, cleaned, again, page_text, label, found, anchors, external_links,
                   documents, parts, raw, iso, toks, span, token>>

NextLinks == ExtractLinks \/ SortLinks \/ AssembleLink

SpecLinks == InitLinks /\ [][NextLinks]_vars

\* the classifier's output for a list of anchors: extract_links, then the
\* sorted-set step
LinkClassifier(hrefs) ==
    <<sorted_set(extract_links(hrefs)[1]), sorted_set(extract_links(hrefs)[2])>>

\* the anchors in every order, and with an anchor repeated
Rearranged(hrefs) ==
    { [i \in 1..Len(hrefs) |-> hrefs[p[i]]] : p \in Permutations(1..Len(hrefs)) }
    \cup { hrefs \o hrefs }
    \cup { Append(hrefs, hrefs[i]) : i \in 1..Len(hrefs) }

\* an href that is an absolute URL: what is left of it after trimming starts
\* with "http"
AbsoluteHrefs(hrefs) == {h \in {strip(x) : x \in Range(hrefs)} : startswith(h, "http")}
PdfHref(h) == endswith(lower(h), lower(".pdf")) \/ ContainsIgnoreCase(h, ".pdf?")

StrictlyAscending(list) == \A i \in 1..(Len(list) - 1) : StrLess(list[i], list[i + 1])

\* C7: the two output lists are duplicate-free and sorted; documents are the
\* absolute hrefs ending in ".pdf" or containing ".pdf?" in any case, external
\* links the other absolute hrefs; relative and empty hrefs are in neither
\* list, no href is in both, and reordering or repeating anchors changes
\* nothing; the three-href example gives one document and one external link.
C7_LinkLists ==
    pc \in {"sorted", "linked"} =>
        /\ Range(documents) = {h \in AbsoluteHrefs(anchors) : PdfHref(h)}
        /\ Range(external_links) = {h \in AbsoluteHrefs(anchors) : ~PdfHref(h)}
        /\ Len(documents) = Cardinality(Range(documents))
        /\ Len(external_links) = Cardinality(Range(external_links))
        /\ StrictlyAscending(documents)
        /\ StrictlyAscending(external_links)
        /\ Range(documents) \cap Range(external_links) = {}
        /\ \A x \in Range(anchors) :
               ~startswith(strip(x), "http")
               => {x, strip(x)} \cap (Range(documents) \cup Range(external_links)) = {}
        /\ \A b \in Rearranged(anchors) : LinkClassifier(b) = <<external_links, documents>>
        /\ Range(anchors) = {"https://a.gov/x.pdf", "https://a.gov/page", "/relative"}
           => /\ documents = <<"https://a.gov/x.pdf">>
              /\ external_links = <<"https://a.gov/page">>

C7_Witness ==
    /\ pc = "sorted"
    /\ anchors = <<"https://a.gov/x.pdf", "/relative", "https://a.gov/page">>
    /\ documents = <<"https://a.gov/x.pdf">>
    /\ external_links = <<"https://a.gov/page">>

\* the lexicographically first string of a non-empty list
FirstOf(list) == CHOOSE x \in Range(list) : \A y \in Range(list) : x = y \/ StrLess(x, y)

\* C8: after link assembly the additional-info link is the lexicographically
\* first document, described "primary_pdf", if there is a document; else the
\* lexicographically first external link, described "external_link"; else
\* both fields stay absent.  No external link is chosen when a document exists.
C8_AdditionalInfo ==
    pc = "linked" =>
        /\ documents # <<>> =>
               /\ opp.additional_info_url = Str(FirstOf(documents))
               /\ opp.additional_info_url_description = Str("primary_pdf")
        /\ (documents = <<>> /\ external_links # <<>>) =>
               /\ opp.additional_info_url = Str(FirstOf(external_links))
               /\ opp.additional_info_url_description = Str("external_link")
        /\ (documents = <<>> /\ external_links = <<>>) =>
               /\ opp.additional_info_url = None
               /\ opp.additional_info_url_description = None
        /\ opp.additional_info_url_description = Str("external_link") => documents = <<>>

C8_Witness ==
    /\ pc = "linked"
    /\ Len(documents) = 2
    /\ external_links # <<>>
    /\ opp.additional_info_url = Str("https://a.gov/x.pdf")
    /\ opp.additional_info_url_description = Str("primary_pdf")

-----------------------------------------------------------------------------
(* Date normalizer: to_iso_date, with datetime.strptime on its four formats *)

\* value of the digit at position i, or -1 when there is none
DigitAt(str, i) == IF i <= Len(str) /\ IsDigit(Ch(str, i)) THEN DigitVal(Ch(str, i)) ELSE -1

LitAt(str, i, c) == i <= Len(str) /\ Ch(str, i) = c

\* %m: 1[0-2]|0[1-9]|[1-9], the alternatives that match at i, in that order
MonthCands(str, i) ==
    (IF DigitAt(str, i) = 1 /\ DigitAt(str, i + 1) \in 0..2
     THEN <<[v |-> 10 + DigitAt(str, i + 1), next |-> i + 2]>> ELSE <<>>)
    \o (IF DigitAt(str, i) = 0 /\ DigitAt(str, i + 1) \in 1..9
        THEN <<[v |-> DigitAt(str, i + 1), next |-> i + 2]>> ELSE <<>>)
    \o (IF DigitAt(str, i) \in 1..9
        THEN <<[v |-> DigitAt(str, i), next |-> i + 1]>> ELSE <<>>)

\* %d: 3[0-1]|[1-2]\d|0[1-9]|[1-9]| [1-9], the alternatives that match at i
DayCands(str, i) ==
    (IF DigitAt(str, i) = 3 /\ DigitAt(str, i + 1) \in 0..1
     THEN <<[v |-> 30 + DigitAt(str, i + 1), next |-> i + 2]>> ELSE <<>>)
    \o (IF DigitAt(str, i) \in 1..2 /\ DigitAt(str, i + 1) \in 0..9
        THEN <<[v |-> 10 * DigitAt(str, i) + DigitAt(str, i + 1), next |-> i + 2]>> ELSE <<>>)
    \o (IF DigitAt(str, i) = 0 /\ DigitAt(str, i + 1) \in 1..9
        THEN <<[v |-> DigitAt(str, i + 1), next |-> i + 2]>> ELSE <<>>)
    \o (IF DigitAt(str, i) \in 1..9
        THEN <<[v |-> DigitAt(str, i), next |-> i + 1]>> ELSE <<>>)
    \o (IF LitAt(str, i, " ") /\ DigitAt(str, i + 1) \in 1..9
        THEN <<[v |-> DigitAt(str, i + 1), next |-> i + 2]>> ELSE <<>>)

\* %Y: \d\d\d\d
YearCands(str, i) ==
    IF \A k \in 0..3 : DigitAt(str, i + k) >= 0
    THEN <<[v |-> 1000 * DigitAt(str, i) + 100 * DigitAt(str, i + 1)
                  + 10 * DigitAt(str, i + 2) + DigitAt(str, i + 3),
            next |-> i + 4]>>
    ELSE <<>>

MonthNames ==
    <<"january", "february", "march", "april", "may", "june", "july", "august",
      "september", "october", "november", "december">>
MonthAbbrs ==
    <<"jan", "feb", "mar", "apr", "may", "jun", "jul", "aug", "sep", "oct", "nov", "dec">>

\* %B / %b: the month names that match at i, in any case
NameCands(str, i, names) ==
    LET hit(k) == /\ i + Len(names[k]) - 1 <= Len(str)
                  /\ lower(SubSeq(str, i, i + Len(names[k]) - 1)) = names[k]
        at(k) == IF hit(k) THEN <<[v |-> k, next |-> i + Len(names[k])]>> ELSE <<>>
    IN  at(1) \o at(2) \o at(3) \o at(4) \o at(5) \o at(6)
        \o at(7) \o at(8) \o at(9) \o at(10) \o at(11) \o at(12)

NoMatch == [matched |-> FALSE]
Match(y, m, d, e) == [matched |-> TRUE, year |-> y, month |-> m, day |-> d, end |-> e]

\* In the three patterns below an alternative of a group is taken when the
\* rest of the pattern matches after it, the alternatives being tried in the
\* order written: SelectSeq keeps those, Head is the one the match uses.

\* %m/%d/%Y
MatchSlash(str) ==
    LET yearAfter(dc) == LitAt(str, dc.next, "/") /\ YearCands(str, dc.next + 1) # <<>>
        days(mc) == SelectSeq(DayCands(str, mc.next + 1), yearAfter)
        dayAfter(mc) == LitAt(str, mc.next, "/") /\ days(mc) # <<>>
        months == SelectSeq(MonthCands(str, 1), dayAfter)
    IN  IF months = <<>> THEN NoMatch
        ELSE LET m == Head(months)
                 d == Head(days(m))
                 y == Head(YearCands(str, d.next + 1))
             IN  Match(y.v, m.v, d.v, y.next)

\* %B %d, %Y and %b %d, %Y: a blank of the format is \s+
MatchNamed(str, names) ==
    LET yearAfter(dc) ==
            /\ LitAt(str, dc.next, ",")
            /\ SkipSpaces(str, dc.next + 1) > dc.next + 1
            /\ YearCands(str, SkipSpaces(str, dc.next + 1)) # <<>>
        days(mc) == SelectSeq(DayCands(str, SkipSpaces(str, mc.next)), yearAfter)
        dayAfter(mc) == SkipSpaces(str, mc.next) > mc.next /\ days(mc) # <<>>
        months == SelectSeq(NameCands(str, 1, names), dayAfter)
    IN  IF months = <<>> THEN NoMatch
        ELSE LET m == Head(months)
                 d == Head(days(m))
                 y == Head(YearCands(str, SkipSpaces(str, d.next + 1)))
             IN  Match(y.v, m.v, d.v, y.next)

\* %Y-%m-%d
MatchIso(str) ==
    LET dayAfter(mc) == LitAt(str, mc.next, "-") /\ DayCands(str, mc.next + 1) # <<>>
        years == YearCands(str, 1)
        months == SelectSeq(MonthCands(str, 6), dayAfter)
    IN  IF years = <<>> \/ ~LitAt(str, 5, "-") \/ months = <<>> THEN NoMatch
        ELSE LET m == Head(months)
                 d == Head(DayCands(str, m.next + 1))
             IN  Match(Head(years).v, m.v, d.v, d.next)

IsLeap(y) == y % 4 = 0 /\ (y % 100 # 0 \/ y % 400 = 0)
DaysIn(y, m) ==
    IF m \in {4, 6, 9, 11} THEN 30
    ELSE IF m = 2 THEN (IF IsLeap(y) THEN 29 ELSE 28)
    ELSE 31

\* datetime(year, month, day) raises ValueError outside the calendar
ValidDate(y, m, d) == y >= 1 /\ m \in 1..12 /\ d \in 1..DaysIn(y, m)

Pad2(n) == Ch(Digits, (n \div 10) + 1) \o Ch(Digits, (n % 10) + 1)
Pad4(n) == Pad2(n \div 100) \o Pad2(n % 100)
\* date.isoformat()
isoformat(y, m, d) == Pad4(y) \o "-" \o Pad2(m) \o "-" \o Pad2(d)

Formats == <<"%m/%d/%Y", "%B %d, %Y", "%b %d, %Y", "%Y-%m-%d">>

\* the pattern of a format, matched at the start of str
MatchFormat(str, fmt) ==
    CASE fmt = "%m/%d/%Y" -> MatchSlash(str)
      [] fmt = "%B %d, %Y" -> MatchNamed(str, MonthNames)
      [] fmt = "%b %d, %Y" -> MatchNamed(str, MonthAbbrs)
      [] fmt = "%Y-%m-%d" -> MatchIso(str)

\* what strptime makes of the match r: ValueError (raised |-> TRUE) when the
\* format does not match, text is left over, or the date does not exist
DateOf(str, r) ==
    IF ~r.matched THEN [raised |-> TRUE]
    ELSE IF r.end # Len(str) + 1 THEN [raised |-> TRUE]
    ELSE IF ~ValidDate(r.year, r.month, r.day) THEN [raised |-> TRUE]
    ELSE [raised |-> FALSE, year |-> r.year, month |-> r.month, day |-> r.day]

\* datetime.strptime(str, fmt)
strptime(str, fmt) == DateOf(str, MatchFormat(str, fmt))

\* the for loop over the formats: results[k] is strptime with the k-th format;
\* the first that does not raise is returned in ISO form, and `return s`
\* follows the loop
TryFormats(str, results) ==
    LET parsed == {k \in 1..Len(Formats) : ~results[k].raised}
    IN  IF parsed = {} THEN Str(str)
        ELSE Str(isoformat(results[Min(parsed)].year, results[Min(parsed)].month,
                           results[Min(parsed)].day))

\* plausible slip: None instead of the text when no format parses
TryFormatsOrNone(str, results) ==
    LET parsed == {k \in 1..Len(Formats) : ~results[k].raised}
    IN  IF parsed = {} THEN None
        ELSE Str(isoformat(results[Min(parsed)].year, results[Min(parsed)].month,
                           results[Min(parsed)].day))

to_iso_date_or_none(v) ==
    IF ~Truthy(v) THEN None
    ELSE TryFormatsOrNone(clean_text(v.str),
                          [k \in 1..Len(Formats) |-> strptime(clean_text(v.str), Formats[k])])

to_iso_date(v) ==
    IF ~Truthy(v) THEN None
    ELSE TryFormats(clean_text(v.str),
                    [k \in 1..Len(Formats) |-> strptime(clean_text(v.str), Formats[k])])

\* Raw date strings, put together from a month, a day and a year token in one
\* of the three layouts, with text around them.  A token carries the number
\* it stands for (0: none) and that number as the ISO form writes it.
Tok(text, num, canon) == [text |-> text, num |-> num, canon |-> canon]

NumberMonths ==
    { Tok("8", 8, "08"), Tok("08", 8, "08"), Tok("12", 12, "12"), Tok("2", 2, "02"),
      Tok("02", 2, "02"), Tok("13", 0, ""), Tok("0", 0, "") }
NamedMonths ==
    { Tok("August", 8, "08"), Tok("august", 8, "08"), Tok("Aug", 8, "08"), Tok("AUG", 8, "08"),
      Tok("February", 2, "02"), Tok("Feb", 2, "02"), Tok("May", 5, "05"),
      Tok("Sept", 0, ""), Tok("Augus", 0, "") }
DayTokens ==
    { Tok("1", 1, "01"), Tok("01", 1, "01"), Tok(" 1", 1, "01"), Tok("29", 29, "29"),
      Tok("30", 30, "30"), Tok("31", 31, "31"), Tok("32", 0, ""), Tok("0", 0, "") }
YearTokens ==
    { Tok("2025", 2025, "2025"), Tok("2024", 2024, "2024"), Tok("0000", 0, ""),
      Tok("202", 0, ""), Tok("20255", 0, "") }
Before == {"", " "}
After == {"", " ", " at 5:00 PM"}
OtherTexts == {"", " ", "TBD", "08-01-2025", "August 1,2025"}

DateParts ==
    { [kind |-> k, month |-> m, day |-> d, year |-> y, pre |-> a, post |-> b] :
        k \in {"slash", "iso"}, m \in NumberMonths, d \in DayTokens, y \in YearTokens,
        a \in Before, b \in After }
    \cup { [kind |-> "named", month |-> m, day |-> d, year |-> y, pre |-> a, post |-> b] :
        m \in NamedMonths, d \in DayTokens, y \in YearTokens, a \in Before, b \in After }
    \cup { [kind |-> "other", text |-> x] : x \in OtherTexts }
    \cup { [kind |-> "absent"] }

Render(p) ==
    CASE p.kind = "slash" ->
            Str(p.pre \o p.month.text \o "/" \o p.day.text \o "/" \o p.year.text \o p.post)
      [] p.kind = "iso" ->
            Str(p.pre \o p.year.text \o "-" \o p.month.text \o "-" \o p.day.text \o p.post)
      [] p.kind = "named" ->
            Str(p.pre \o p.month.text \o " " \o p.day.text \o ", " \o p.year.text \o p.post)
      [] p.kind = "other" -> Str(p.text)
      [] p.kind = "absent" -> None

InitDate ==
    /\ pc = "start"
    /\ parts \in DateParts
    /\ raw = Render(parts)
    /\ iso = None
    /\ PruneIdle /\ TagsIdle /\ LabelIdle /\ LinksIdle /\ TokenIdle

ToIsoDate ==
    /\ pc = "start"
    /\ iso' = to_iso_date(raw)
    /\ pc' = "normalized"
    /\ UNCHANGED <<data, cleaned, again, opp, page_text, label, found, anchors,
                   external_links, documents, parts, raw, toks, span, token>>

NextDate == ToIsoDate

SpecDate == InitDate /\ [][NextDate]_vars

\* the date the tokens stand for exists, and nothing but blanks surrounds it
LastDay(y, m) == IF m = 2 THEN (IF y = 2024 THEN 29 ELSE 28) ELSE 31
IsSupportedDate(p) ==
    /\ p.kind \in {"slash", "iso", "named"}
    /\ p.month.num # 0 /\ p.day.num # 0 /\ p.year.num # 0
    /\ p.day.num <= LastDay(p.year.num, p.month.num)
    /\ p.post \in {"", " "}

\* C9: for a non-empty raw string to_iso_date returns the ISO form of the date
\* when one of the four formats parses it, and otherwise the
\* whitespace-normalized input itself, never an error or an absent value.
C9_ToIsoDate ==
    (pc = "normalized" /\ raw # None /\ raw # Str("")) =>
        /\ iso # None
        /\ IsSupportedDate(parts)
           => iso = Str(parts.year.canon \o "-" \o parts.month.canon \o "-" \o parts.day.canon)
        /\ ~IsSupportedDate(parts) => iso = Str(clean_text(raw.str))

C9_Witness ==
    /\ pc = "normalized"
    /\ raw = Str(" 02/30/2025 ")
    /\ iso = Str("02/30/2025")

-----------------------------------------------------------------------------
(* Date-token extractor: first_date_token *)

\* \b between positions i - 1 and i
WordBoundary(str, i) ==
    (i > 1 /\ IsWord(Ch(str, i - 1))) # (i <= Len(str) /\ IsWord(Ch(str, i)))

\* n digits from position i on
DigitsAt(str, i, n) == \A k \in 0..(n - 1) : DigitAt(str, i + k) >= 0

\* \d{1,2} at i, greedy: the positions after two digits and after one digit
OneOrTwoDigits(str, i) ==
    (IF DigitsAt(str, i, 2) THEN <<i + 2>> ELSE <<>>)
    \o (IF DigitsAt(str, i, 1) THEN <<i + 1>> ELSE <<>>)

\* [A-Za-z]+ at i, greedy: the position after the run of letters
LettersEnd(str, i) == Min({j \in i..(Len(str) + 1) : j = Len(str) + 1 \/ ~IsAlpha(Ch(str, j))})

\* \b([A-Za-z]+ \d{1,2}, \d{4})\b tried at i: the position after the match, or 0
NamedTokenAt(str, i) ==
    IF ~(WordBoundary(str, i) /\ i <= Len(str) /\ IsAlpha(Ch(str, i))) THEN 0
    ELSE LET j == LettersEnd(str, i)
             yearAfter(e) ==
                 /\ LitAt(str, e, ",") /\ LitAt(str, e + 1, " ")
                 /\ DigitsAt(str, e + 2, 4) /\ WordBoundary(str, e + 6)
             days == SelectSeq(OneOrTwoDigits(str, j + 1), yearAfter)
         IN  IF ~LitAt(str, j, " ") \/ days = <<>> THEN 0 ELSE Head(days) + 6

\* \b(\d{1,2}/\d{1,2}/\d{4})\b tried at i
SlashTokenAt(str, i) ==
    IF ~WordBoundary(str, i) THEN 0
    ELSE LET yearAfter(e) ==
                 LitAt(str, e, "/") /\ DigitsAt(str, e + 1, 4) /\ WordBoundary(str, e + 5)
             days(e) == SelectSeq(OneOrTwoDigits(str, e + 1), yearAfter)
             dayAfter(e) == LitAt(str, e, "/") /\ days(e) # <<>>
             months == SelectSeq(OneOrTwoDigits(str, i), dayAfter)
         IN  IF months = <<>> THEN 0 ELSE Head(days(Head(months))) + 5

\* \b(\d{4}-\d{2}-\d{2})\b tried at i
IsoTokenAt(str, i) ==
    IF /\ WordBoundary(str, i)
       /\ DigitsAt(str, i, 4) /\ LitAt(str, i + 4, "-")
       /\ DigitsAt(str, i + 5, 2) /\ LitAt(str, i + 7, "-")
       /\ DigitsAt(str, i + 8, 2) /\ WordBoundary(str, i + 10)
    THEN i + 10 ELSE 0

\* re.search: the leftmost match, as <<start, group(1)>>, or <<>>
\* (ends[i]: the position after the pattern's match tried at i, or 0)
SearchToken(str, ends) ==
    LET starts == {i \in 1..Len(str) : ends[i] # 0}
    IN  IF starts = {} THEN <<>>
        ELSE <<Min(starts), SubSeq(str, Min(starts), ends[Min(starts)] - 1)>>

\* the three searches on the normalized span
Searches(str) ==
    [named |-> SearchToken(str, [i \in 1..Len(str) |-> NamedTokenAt(str, i)]),
     slash |-> SearchToken(str, [i \in 1..Len(str) |-> SlashTokenAt(str, i)]),
     iso |-> SearchToken(str, [i \in 1..Len(str) |-> IsoTokenAt(str, i)])]

\* plausible slip: the date that comes first in the span, whatever its pattern
TokenByPosition(m) ==
    IF m.named = <<>> /\ m.slash = <<>> /\ m.iso = <<>> THEN None
    ELSE IF m.named # <<>> /\ m.named[1] = Min({x[1] : x \in {m.named, m.slash, m.iso} \ {<<>>}})
    THEN to_iso_date(Str(m.named[2]))
    ELSE IF m.slash # <<>> /\ m.slash[1] = Min({x[1] : x \in {m.named, m.slash, m.iso} \ {<<>>}})
    THEN to_iso_date(Str(m.slash[2]))
    ELSE Str(m.iso[2])

first_date_token_by_position(v) ==
    IF ~Truthy(v) THEN None ELSE TokenByPosition(Searches(clean_text(v.str)))

\* the three `if m:` in turn
TokenByPriority(m) ==
    IF m.named # <<>> THEN to_iso_date(Str(m.named[2]))
    ELSE IF m.slash # <<>> THEN to_iso_date(Str(m.slash[2]))
    ELSE IF m.iso # <<>> THEN Str(m.iso[2])
    ELSE None

first_date_token(v) ==
    IF ~Truthy(v) THEN None ELSE TokenByPriority(Searches(clean_text(v.str)))

\* Spans: fragments laid side by side with single blanks, each a date token
\* of one of the three patterns or other text.
MaxTokens == 3

Frag(kind, text) == [kind |-> kind, text |-> text]

Fragments ==
    { Frag("named", "August 1, 2025"), Frag("named", "Room 12, 2025"),
      Frag("slash", "08/02/2025"), Frag("slash", "13/45/2025"),
      Frag("iso", "2025-08-03"),
      Frag("other", "due"), Frag("other", "5:00"),
      Frag("other", "x08/02/2025"), Frag("other", "2025-08-031") }

FragmentLists == UNION {[1..n -> Fragments] : n \in 0..MaxTokens}

InitToken ==
    /\ pc = "start"
    /\ toks \in FragmentLists
    /\ \/ span = Str(JoinSpace([i \in 1..Len(toks) |-> toks[i].text]))
       \/ toks = <<>> /\ span = None
    /\ token = None
    /\ PruneIdle /\ TagsIdle /\ LabelIdle /\ LinksIdle /\ DateIdle

FirstDateToken ==
    /\ pc = "start"
    /\ token' = first_date_token(span)
    /\ pc' = "tokenized"
    /\ UNCHANGED <<data, cleaned, again, opp, page_text, label, found, anchors,
                   external_links, documents, parts, raw, iso, toks, span>>

NextToken == FirstDateToken

SpecToken == InitToken /\ [][NextToken]_vars

HasKind(k) == \E i \in 1..Len(toks) : toks[i].kind = k
FirstOfKind(k) == toks[Min({i \in 1..Len(toks) : toks[i].kind = k})].text

====
